---- MODULE Spec2Model ----
(***************************************************************************)
(* A model of dirscan (src/scan/cli.py): one run of main() is a sequence   *)
(* of steps over a filesystem, and the program may be run a second time    *)
(* on what the first run left behind.                                      *)
(*                                                                         *)
(* Strings are sequences of one-character strings, a path is the sequence  *)
(* of its components below the filesystem root "/" (<<>> is "/" itself).   *)
(***************************************************************************)
EXTENDS Integers, Sequences, FiniteSets, TLC

VARIABLES fs, args, pc, run, root, repo, tree, counter, total, summary,
          diagnose, files, stdout, err, fs0, prevTree, prevCounter

vars == <<fs, args, pc, run, root, repo, tree, counter, total, summary,
          diagnose, files, stdout, err, fs0, prevTree, prevCounter>>

\* ------------------------------------------------------------- bounds

\* Entries of the filesystem besides "/" and the home directory.
MaxEntries == 4
\* Entries whose listing, stat or read fails.
MaxFaults == 1
\* The size in bytes of each file the filesystem starts with.
FileBytes == 1536

\* ------------------------------------------------------------ strings

SEP == "/"
DOT == "."

UpperCase == <<"A","B","C","D","E","F","G","H","I","J","K","L","M",
               "N","O","P","Q","R","S","T","U","V","W","X","Y","Z">>
LowerCase == <<"a","b","c","d","e","f","g","h","i","j","k","l","m",
               "n","o","p","q","r","s","t","u","v","w","x","y","z">>

\* str.lower(), one character
LowerChar(c) ==
    IF \E i \in 1..26 : UpperCase[i] = c
    THEN LowerCase[CHOOSE i \in 1..26 : UpperCase[i] = c]
    ELSE c

\* str.lower()
Lower(s) == [i \in 1..Len(s) |-> LowerChar(s[i])]

\* str.rfind(c), 1-based; 0 when absent
RFind(s, c) ==
    IF \E i \in 1..Len(s) : s[i] = c
    THEN CHOOSE i \in 1..Len(s) : s[i] = c /\ \A j \in (i+1)..Len(s) : s[j] # c
    ELSE 0

\* PurePath.suffix of a file name: from the last dot, unless the dot is the
\* first or the last character
Suffix(name) ==
    LET i == RFind(name, DOT)
    IN  IF 1 < i /\ i < Len(name) THEN SubSeq(name, i, Len(name)) ELSE <<>>

\* str.count(c)
Count(s, c) == Cardinality({i \in 1..Len(s) : s[i] = c})

StartsAt(s, old, i) ==
    /\ i + Len(old) - 1 <= Len(s)
    /\ SubSeq(s, i, i + Len(old) - 1) = old

RECURSIVE ReplaceFrom(_, _, _)
ReplaceFrom(s, old, i) ==
    IF i > Len(s) THEN <<>>
    ELSE IF StartsAt(s, old, i) THEN ReplaceFrom(s, old, i + Len(old))
    ELSE <<s[i]>> \o ReplaceFrom(s, old, i + 1)

\* s.replace(old, ""): every non-overlapping occurrence, left to right
Replace(s, old) == ReplaceFrom(s, old, 1)

\* ---------------------------------------------------- program constants

IGNORE_DIRS ==
    { <<".","g","i","t">>, <<".","v","e","n","v">>, <<"v","e","n","v">>,
      <<"_","_","p","y","c","a","c","h","e","_","_">>,
      <<"b","u","i","l","d">>, <<"d","i","s","t">>,
      <<".","e","g","g","-","i","n","f","o">>,
      <<".","m","y","p","y","_","c","a","c","h","e">>,
      <<".","p","y","t","e","s","t","_","c","a","c","h","e">> }

SOURCE_EXTS ==
    { <<".","p","y">>, <<".","j","s">>, <<".","t","s">>,
      <<".","h","t","m","l">>, <<".","c","s","s">>, <<".","m","d">>,
      <<".","j","s","o","n">>, <<".","y","m","l">>, <<".","y","a","m","l">>,
      <<".","t","o","m","l">>, <<".","i","n","i">>, <<".","s","h">> }

BINARY_EXTS ==
    { <<".","z","i","p">>, <<".","t","a","r">>, <<".","g","z">>,
      <<".","w","h","l">>, <<".","a","p","k">>, <<".","e","x","e">>,
      <<".","b","i","n">> }

NOEXT == <<"n","o","e","x","t">>
EXT_PY == <<".","p","y">>
EXT_HTML == <<".","h","t","m","l">>
EXT_CSS == <<".","c","s","s">>
WebThreshold == 5

GIT == <<".","g","i","t">>
NOISE_DIRS == << <<"b","u","i","l","d">>, <<"d","i","s","t">>,
                 <<".","v","e","n","v">>, GIT >>

STORAGE == <<"s","t","o","r","a","g","e">>
DOWNLOADS == <<"d","o","w","n","l","o","a","d","s">>
SCAN_DIR == <<"S","c","a","n">>

\* ----------------------------------------------------------- filesystem

\* Names of the entries the model's filesystems are built from.
A == <<"a">>
B == <<"b">>
N == <<"n">>
BUILD == <<"b","u","i","l","d">>
XPY == <<"x",".","p","y">>
TPY == <<"T",".","P","Y">>
YZIP == <<"y",".","z","i","p">>

\* Path.home()
Home == << <<"h">> >>

UDirs == { <<A>>, <<A, B>>, <<A, B, A>>, <<A, BUILD>>, <<A, GIT>> }
UFiles == { <<A, XPY>>, <<A, YZIP>>, <<A, N>>, <<A, B, A, TPY>>,
            <<A, BUILD, XPY>> }

Parent(p) == SubSeq(p, 1, Len(p) - 1)
BaseName(p) == IF p = <<>> THEN <<>> ELSE p[Len(p)]
IsPrefix(p, q) == Len(p) <= Len(q) /\ SubSeq(q, 1, Len(p)) = p

Exists(f, p) == p \in DOMAIN f
IsDir(f, p) == Exists(f, p) /\ f[p].kind = "dir"
IsFile(f, p) == Exists(f, p) /\ f[p].kind = "file"

\* The entries of directory p
Entries(f, p) == {q \in DOMAIN f : Len(q) = Len(p) + 1 /\ Parent(q) = p}

\* The order in which a directory listing hands out its entries: arbitrary,
\* the same each time the same set is listed.
RECURSIVE ListingOrder(_)
ListingOrder(S) ==
    IF S = {} THEN <<>>
    ELSE LET x == CHOOSE y \in S : TRUE
         IN  <<x>> \o ListingOrder(S \ {x})

\* The path as the string os.walk hands out: "/" itself, else "/c1/c2..."
RECURSIVE PathStr(_)
PathStr(p) ==
    IF p = <<>> THEN <<SEP>>
    ELSE IF Len(p) = 1 THEN <<SEP>> \o p[1]
    ELSE PathStr(Parent(p)) \o <<SEP>> \o p[Len(p)]

RECURSIVE Concat(_)
Concat(ss) == IF ss = <<>> THEN <<>> ELSE Head(ss) \o Concat(Tail(ss))

\* os.walk(top), top-down, onerror=None, followlinks=False; `pruned` are the
\* names the caller's loop body removes from dirs before the walk descends.
\* A directory whose listing fails yields nothing and is not descended into.
RECURSIVE os_walk(_, _, _)
os_walk(f, top, pruned) ==
    IF ~IsDir(f, top) \/ f[top].acc = "nolist" THEN <<>>
    ELSE
      LET ents  == ListingOrder(Entries(f, top))
          names == [i \in 1..Len(ents) |-> BaseName(ents[i])]
          isd(n) == IsDir(f, top \o <<n>>)
          isf(n) == ~IsDir(f, top \o <<n>>)
          keep(n) == n \notin pruned
          dirs  == SelectSeq(SelectSeq(names, isd), keep)
          nondirs == SelectSeq(names, isf)
      IN  << [base |-> top, dirs |-> dirs, files |-> nondirs] >>
          \o Concat([i \in 1..Len(dirs) |->
                       os_walk(f, top \o <<dirs[i]>>, pruned)])

\* ------------------------------------------------------------ build_tree

\* base.replace(root, "").count(os.sep)
Level(base, rt) == Count(Replace(PathStr(base), PathStr(rt)), SEP)

\* os.path.basename(base) or base
DirLabel(base) == IF BaseName(base) = <<>> THEN PathStr(base) ELSE BaseName(base)

\* The lines of one visited directory. `spaces` is the width of the indent,
\* `text` what follows it; `of` and `isdir` record which entry the line is for.
TreeLines(e, rt) ==
    LET level == Level(e.base, rt)
    IN  << [spaces |-> 2 * level, text |-> DirLabel(e.base) \o <<SEP>>,
            isdir |-> TRUE, of |-> e.base] >>
        \o [i \in 1..Len(e.files) |->
              [spaces |-> 2 * level + 2, text |-> e.files[i],
               isdir |-> FALSE, of |-> e.base \o <<e.files[i]>>]]

\* build_tree without line 30: the walk descends into every directory
build_tree_unpruned(f, rt) ==
    LET w == os_walk(f, rt, {})
    IN  Concat([i \in 1..Len(w) |-> TreeLines(w[i], rt)])

build_tree(f, rt) ==
    LET w == os_walk(f, rt, IGNORE_DIRS)
    IN  Concat([i \in 1..Len(w) |-> TreeLines(w[i], rt)])

\* ---------------------------------------------------------- analyze_repo

\* Path(f).suffix.lower() or "noext"
ExtKey(name) == IF Suffix(name) = <<>> THEN NOEXT ELSE Lower(Suffix(name))

\* A Counter: its keys in insertion order, each with its count
CounterGet(c, k) ==
    IF \E i \in 1..Len(c) : c[i].ext = k
    THEN c[CHOOSE i \in 1..Len(c) : c[i].ext = k].n
    ELSE 0

\* counter[k] += 1
CounterInc(c, k) ==
    IF \E i \in 1..Len(c) : c[i].ext = k
    THEN [i \in 1..Len(c) |-> IF c[i].ext = k
                              THEN [ext |-> k, n |-> c[i].n + 1] ELSE c[i]]
    ELSE Append(c, [ext |-> k, n |-> 1])

\* The inner loop counting into total only the files that have an extension
CountFileSkipsNoext(acc, name) ==
    [counter |-> CounterInc(acc.counter, ExtKey(name)),
     total |-> IF Suffix(name) = <<>> THEN acc.total ELSE acc.total + 1]

\* One pass of the inner loop: counter[ext] += 1; total += 1
CountFile(acc, name) ==
    [counter |-> CounterInc(acc.counter, ExtKey(name)), total |-> acc.total + 1]

RECURSIVE CountFiles(_, _)
CountFiles(acc, names) ==
    IF names = <<>> THEN acc
    ELSE CountFiles(CountFile(acc, Head(names)), Tail(names))

\* analyze_repo without line 42: the walk descends into every directory
analyze_repo_unpruned(f, rt) ==
    LET w == os_walk(f, rt, {})
    IN  CountFiles([counter |-> <<>>, total |-> 0],
                   Concat([i \in 1..Len(w) |-> w[i].files]))

analyze_repo(f, rt) ==
    LET w == os_walk(f, rt, IGNORE_DIRS)
    IN  CountFiles([counter |-> <<>>, total |-> 0],
                   Concat([i \in 1..Len(w) |-> w[i].files]))

\* -------------------------------------------------------- infer_identity

infer_identity(c) ==
    IF CounterGet(c, EXT_PY) > 0 THEN "Python Package"
    ELSE IF CounterGet(c, EXT_HTML) + CounterGet(c, EXT_CSS) > WebThreshold
    THEN "Web Project"
    ELSE "Source Code Repository"

\* --------------------------------------------------------------- summary

\* Counter.most_common(): by descending count, equal counts in insertion order
RECURSIVE InsertByCount(_, _)
InsertByCount(sorted, x) ==
    IF sorted = <<>> THEN <<x>>
    ELSE IF Head(sorted).n >= x.n
    THEN <<Head(sorted)>> \o InsertByCount(Tail(sorted), x)
    ELSE <<x>> \o sorted

RECURSIVE most_common(_)
most_common(c) ==
    IF c = <<>> THEN <<>>
    ELSE InsertByCount(most_common(SubSeq(c, 1, Len(c) - 1)), c[Len(c)])

\* The summary's generator evaluates v/total once for each key of the counter
DividesByZero(c, t) == c # <<>> /\ t = 0

\* int(v/total*100)
Percent(v, t) == (v * 100) \div t

Composition(c, t) ==
    LET mc == most_common(c)
    IN  [i \in 1..Len(mc) |->
           [ext |-> mc[i].ext, n |-> mc[i].n, pct |-> Percent(mc[i].n, t)]]

\* --------------------------------------------------------- diagnose_repo

KiB == 1024

\* f"{x:.1f}" of the exact quotient num/den, in tenths: to nearest, ties to even
RoundTenths(num, den) ==
    LET q == (num * 10) \div den
        r == (num * 10) % den
    IN  IF 2 * r > den \/ (2 * r = den /\ q % 2 = 1) THEN q + 1 ELSE q

human_size(n) ==
    IF n < KiB THEN [tenths |-> n * 10, unit |-> "B"]
    ELSE IF n < KiB * KiB THEN [tenths |-> RoundTenths(n, KiB), unit |-> "KB"]
    ELSE IF n < KiB * KiB * KiB
    THEN [tenths |-> RoundTenths(n, KiB * KiB), unit |-> "MB"]
    ELSE IF n < KiB * KiB * KiB * KiB
    THEN [tenths |-> RoundTenths(n, KiB * KiB * KiB), unit |-> "GB"]
    ELSE [tenths |-> RoundTenths(n, KiB * KiB * KiB * KiB), unit |-> "TB"]

\* Path(root).rglob("*"): everything below rt that a listing of a listable
\* directory hands out (a directory whose listing fails is passed over)
RGlob(f, rt) ==
    {p \in DOMAIN f :
       /\ Len(p) > Len(rt)
       /\ IsPrefix(rt, p)
       /\ \A k \in Len(rt)..(Len(p) - 1) : f[SubSeq(p, 1, k)].acc # "nolist"}

\* f.is_file() raises: stat fails with an error that pathlib does not ignore
StatRaises(f, rt) == \E p \in RGlob(f, rt) : f[p].kind = "file" /\ f[p].acc = "nostat"

\* ".git" not in f.parts
OutsideGit(p) == \A k \in 1..Len(p) : p[k] # GIT

RECURSIVE SumSizes(_, _)
SumSizes(f, S) ==
    IF S = {} THEN 0
    ELSE LET p == CHOOSE q \in S : TRUE
         IN  f[p].size + SumSizes(f, S \ {p})

RepoSize(f, rt) ==
    SumSizes(f, {p \in RGlob(f, rt) : f[p].kind = "file" /\ OutsideGit(p)})

diagnose_repo(f, rt) ==
    << IF Exists(f, rt \o <<GIT>>)
       THEN [line |-> "Git repository detected", val |-> <<>>]
       ELSE [line |-> "Not a git repository", val |-> <<>>] >>
    \o [i \in 1..Len(SelectSeq(NOISE_DIRS, LAMBDA d : Exists(f, rt \o <<d>>))) |->
          [line |-> "Noise",
           val |-> SelectSeq(NOISE_DIRS, LAMBDA d : Exists(f, rt \o <<d>>))[i]]]
    \o << [line |-> "Repo size", val |-> human_size(RepoSize(f, rt))] >>

\* --------------------------------------------------------- collect_files

\* The two tests with raw mode skipping the deny-list as well
CollectsRawKeepsBinary(name, raw) ==
    raw \/ (Lower(Suffix(name)) \notin BINARY_EXTS
            /\ Lower(Suffix(name)) \in SOURCE_EXTS)

\* The inner loop's two tests on one file of one visited directory
Collects(name, raw) ==
    /\ Lower(Suffix(name)) \notin BINARY_EXTS
    /\ (raw \/ Lower(Suffix(name)) \in SOURCE_EXTS)

CollectIn(e, raw) ==
    LET kept == SelectSeq(e.files, LAMBDA n : Collects(n, raw))
    IN  [i \in 1..Len(kept) |-> e.base \o <<kept[i]>>]

collect_files(f, rt, raw) ==
    LET w == os_walk(f, rt, IGNORE_DIRS)
    IN  Concat([i \in 1..Len(w) |-> CollectIn(w[i], raw)])

\* -------------------------------------------------------- write_artifact

\* Path.home() / "storage" / "downloads" / "Scan" / repo
OutDir(rp) ==
    Home \o <<STORAGE, DOWNLOADS, SCAN_DIR>> \o (IF rp = <<>> THEN <<>> ELSE <<rp>>)

\* "scan" ["-raw"] ["-" idtag] "-" repo ".txt"
OutName(rp, raw, idtag) ==
    <<"s","c","a","n">>
    \o (IF raw THEN <<"-","r","a","w">> ELSE <<>>)
    \o (IF idtag # <<>> THEN <<"-">> \o idtag ELSE <<>>)
    \o <<"-">> \o rp \o <<".","t","x","t">>

OutPath(rp, raw, idtag) == OutDir(rp) \o <<OutName(rp, raw, idtag)>>

\* idtag = None if args.i is True else args.i
IdTag(i) == IF i.kind = "const" THEN <<>> ELSE i.val

\* outdir.mkdir(parents=True, exist_ok=True) cannot succeed
MkdirBlocked(f, d) == \E k \in 1..Len(d) : IsFile(f, SubSeq(d, 1, k))

\* outdir.mkdir(parents=True, exist_ok=True)
MkdirParents(f, d) ==
    [p \in DOMAIN f \cup {SubSeq(d, 1, k) : k \in 1..Len(d)} |->
       IF p \in DOMAIN f THEN f[p]
       ELSE [kind |-> "dir", acc |-> "ok", data |-> <<>>, size |-> 0]]

\* out.open("w") cannot succeed
OpenBlocked(f, out) == IsDir(f, out)

\* The file at `out` holding `data` (created, or truncated and rewritten)
WithFile(f, out, data) ==
    [p \in DOMAIN f \cup {out} |->
       IF p = out
       THEN [kind |-> "file", acc |-> "ok", data |-> data, size |-> Len(data)]
       ELSE f[p]]

\* f.read_text(errors="ignore") raises
ReadRaises(f, p) == ~IsFile(f, p) \/ f[p].acc # "ok"

\* f.relative_to(root)
RelativeTo(p, rt) == SubSeq(p, Len(rt) + 1, Len(p))

\* The loop writing the marker line inside the try, after the read
FileSectionMarkerInTry(f, rt, p) ==
    IF ReadRaises(f, p) THEN << [tag |-> "READ ERROR", val |-> <<>>] >>
    ELSE << [tag |-> "MARK", val |-> RelativeTo(p, rt)],
            [tag |-> "TEXT", val |-> p] >>

\* What the loop over the collected files writes for one file
FileSection(f, rt, p) ==
    << [tag |-> "MARK", val |-> RelativeTo(p, rt)],
       IF ReadRaises(f, p) THEN [tag |-> "READ ERROR", val |-> <<>>]
       ELSE [tag |-> "TEXT", val |-> p] >>

\* Every o.write of write_artifact, in order (the timestamp left out)
Sections(f, rt, rp, tr, sm, dg, fl, raw) ==
    << [tag |-> "HEADER", val |-> <<rp, IF raw THEN "raw" ELSE "standard">>],
       [tag |-> "TREE", val |-> tr],
       [tag |-> "SUMMARY", val |-> sm],
       [tag |-> "DIAGNOSE", val |-> dg],
       [tag |-> "CONTEXT", val |-> <<>>] >>
    \o Concat([i \in 1..Len(fl) |-> FileSection(f, rt, fl[i])])

\* The step of write_artifact that fails, given the failure the environment
\* injects: creating the directory, opening the file, or a write
FailingStep(f, rp, raw, idtag, fault) ==
    IF fault = "mkdir" \/ MkdirBlocked(f, OutDir(rp)) THEN "mkdir"
    ELSE IF fault = "open" \/ OpenBlocked(f, OutPath(rp, raw, idtag)) THEN "open"
    ELSE fault

\* write_artifact emptying the final path before it opens it
FsAfterWriteTruncatesFirst(f, rp, raw, idtag, secs, step, k) ==
    IF step = "mkdir" THEN f
    ELSE IF step = "open"
    THEN WithFile(MkdirParents(f, OutDir(rp)), OutPath(rp, raw, idtag), <<>>)
    ELSE IF step = "write"
    THEN WithFile(MkdirParents(f, OutDir(rp)), OutPath(rp, raw, idtag),
                  SubSeq(secs, 1, k))
    ELSE WithFile(MkdirParents(f, OutDir(rp)), OutPath(rp, raw, idtag), secs)

\* write_artifact with out = Path(repo) / name, resolved against "/"
FsAfterWriteIntoRepo(f, rp, raw, idtag, secs, step, k) ==
    LET dir == IF rp = <<>> THEN <<>> ELSE <<rp>>
        out == dir \o <<OutName(rp, raw, idtag)>>
    IN  IF step = "mkdir" THEN f
        ELSE IF step = "open" THEN MkdirParents(f, dir)
        ELSE IF step = "write"
        THEN WithFile(MkdirParents(f, dir), out, SubSeq(secs, 1, k))
        ELSE WithFile(MkdirParents(f, dir), out, secs)

\* The filesystem after write_artifact ran up to its failing step (or to its
\* end): k is the number of writes that reached the file before the failure
FsAfterWrite(f, rp, raw, idtag, secs, step, k) ==
    IF step = "mkdir" THEN f
    ELSE IF step = "open" THEN MkdirParents(f, OutDir(rp))
    ELSE IF step = "write"
    THEN WithFile(MkdirParents(f, OutDir(rp)), OutPath(rp, raw, idtag),
                  SubSeq(secs, 1, k))
    ELSE WithFile(MkdirParents(f, OutDir(rp)), OutPath(rp, raw, idtag), secs)

\* ------------------------------------------------------------------ main

Absent == [kind |-> "absent", val |-> <<>>]
OptionI == { Absent, [kind |-> "const", val |-> <<>>],
             [kind |-> "str", val |-> <<>>], [kind |-> "str", val |-> <<"t">>] }

\* bool(args.i): None and "" are false, True and a non-empty string are true
Truthy(i) == i.kind = "const" \/ (i.kind = "str" /\ i.val # <<>>)

Closed(S) == \A p \in S : Len(p) > 1 => Parent(p) \in S

MkFs(S, F, G) ==
    [p \in S \cup {<<>>, Home} |->
       [kind |-> IF p \in UFiles THEN "file" ELSE "dir",
        acc  |-> IF p \notin F THEN "ok"
                 ELSE IF p \notin UFiles THEN "nolist"
                 ELSE IF p \in G THEN "nostat" ELSE "noread",
        data |-> <<>>,
        size |-> IF p \in UFiles THEN FileBytes ELSE 0]]

Init ==
    /\ \E S \in SUBSET (UDirs \cup UFiles) :
         /\ Closed(S)
         /\ Cardinality(S) <= MaxEntries
         /\ \E F \in SUBSET S :
              /\ Cardinality(F) <= MaxFaults
              /\ \E G \in SUBSET (F \cap UFiles) : fs = MkFs(S, F, G)
    /\ \E p \in {<<>>, Home, <<A>>, <<A, BUILD>>} :
         /\ IsDir(fs, p)
         /\ \E i \in OptionI, r \in BOOLEAN :
              args = [path |-> p, i |-> i, r |-> r]
    /\ pc = "start"
    /\ run = 1
    /\ root = <<>>
    /\ repo = <<>>
    /\ tree = <<>>
    /\ counter = <<>>
    /\ total = 0
    /\ summary = [identity |-> "", composition |-> <<>>]
    /\ diagnose = <<>>
    /\ files = <<>>
    /\ stdout = <<>>
    /\ err = "none"
    /\ fs0 = fs
    /\ prevTree = <<>>
    /\ prevCounter = <<>>

\* main, lines 127-136: the arguments are parsed, the root resolved and
\* the tree built
BuildTree ==
    /\ pc = "start"
    /\ root' = args.path
    /\ repo' = BaseName(args.path)
    /\ tree' = build_tree(fs, args.path)
    /\ pc' = "tree"
    /\ UNCHANGED <<fs, args, run, counter, total, summary, diagnose, files,
                   stdout, err, fs0, prevTree, prevCounter>>

\* main, line 137
AnalyzeRepo ==
    /\ pc = "tree"
    /\ counter' = analyze_repo(fs, root).counter
    /\ total' = analyze_repo(fs, root).total
    /\ pc' = "analyzed"
    /\ UNCHANGED <<fs, args, run, root, repo, tree, summary, diagnose, files,
                   stdout, err, fs0, prevTree, prevCounter>>

\* main, lines 138-157: the identity and the summary; the division raises
\* ZeroDivisionError when it is evaluated with total = 0
Summarize ==
    /\ pc = "analyzed"
    /\ IF DividesByZero(counter, total)
       THEN /\ pc' = "crashed"
            /\ err' = "ZeroDivisionError"
            /\ UNCHANGED summary
       ELSE /\ pc' = "summarized"
            /\ summary' = [identity |-> infer_identity(counter),
                           composition |-> Composition(counter, total)]
            /\ UNCHANGED err
    /\ UNCHANGED <<fs, args, run, root, repo, tree, counter, total, diagnose,
                   files, stdout, fs0, prevTree, prevCounter>>

\* main, line 159: an exception of the size computation is not caught
DiagnoseRepo ==
    /\ pc = "summarized"
    /\ IF StatRaises(fs, root)
       THEN /\ pc' = "crashed"
            /\ err' = "PermissionError"
            /\ UNCHANGED diagnose
       ELSE /\ pc' = "diagnosed"
            /\ diagnose' = diagnose_repo(fs, root)
            /\ UNCHANGED err
    /\ UNCHANGED <<fs, args, run, root, repo, tree, counter, total, summary,
                   files, stdout, fs0, prevTree, prevCounter>>

\* main, lines 161-166
PrintReport ==
    /\ pc = "diagnosed"
    /\ ~Truthy(args.i)
    /\ stdout' = stdout \o << [tag |-> "TREE", val |-> tree],
                              [tag |-> "SUMMARY", val |-> summary],
                              [tag |-> "DIAGNOSE", val |-> diagnose] >>
    /\ pc' = "done"
    /\ UNCHANGED <<fs, args, run, root, repo, tree, counter, total, summary,
                   diagnose, files, err, fs0, prevTree, prevCounter>>

\* main, line 168
CollectFiles ==
    /\ pc = "diagnosed"
    /\ Truthy(args.i)
    /\ files' = collect_files(fs, root, args.r)
    /\ pc' = "collected"
    /\ UNCHANGED <<fs, args, run, root, repo, tree, counter, total, summary,
                   diagnose, stdout, err, fs0, prevTree, prevCounter>>

\* main, lines 169-170: write_artifact, with the failure (if any) of the
\* destination: none, or at mkdir, at open, or at a write after k writes
WriteArtifact ==
    /\ pc = "collected"
    /\ \E fault \in {"none", "mkdir", "open", "write"} :
       LET idtag == IdTag(args.i)
           secs  == Sections(fs, root, repo, tree, summary, diagnose, files, args.r)
           step  == FailingStep(fs, repo, args.r, idtag, fault)
       IN  \E k \in 0..(Len(secs) - 1) :
             /\ step # "write" => k = 0
             /\ fs' = FsAfterWrite(fs, repo, args.r, idtag, secs, step, k)
             /\ IF step = "none"
                THEN /\ stdout' = Append(stdout,
                                    [tag |-> "OK",
                                     val |-> OutPath(repo, args.r, idtag)])
                     /\ pc' = "done"
                     /\ UNCHANGED err
                ELSE /\ pc' = "crashed"
                     /\ err' = step
                     /\ UNCHANGED stdout
    /\ UNCHANGED <<args, run, root, repo, tree, counter, total, summary,
                   diagnose, files, fs0, prevTree, prevCounter>>

\* After a run that completed, the program is started again, with the same
\* command line, on the filesystem the first run left
Rerun ==
    /\ pc = "done"
    /\ run = 1
    /\ run' = 2
    /\ prevTree' = tree
    /\ prevCounter' = counter
    /\ fs0' = fs
    /\ pc' = "start"
    /\ root' = <<>>
    /\ repo' = <<>>
    /\ tree' = <<>>
    /\ counter' = <<>>
    /\ total' = 0
    /\ summary' = [identity |-> "", composition |-> <<>>]
    /\ diagnose' = <<>>
    /\ files' = <<>>
    /\ stdout' = <<>>
    /\ err' = "none"
    /\ UNCHANGED <<fs, args>>

Next ==
    \/ BuildTree
    \/ AnalyzeRepo
    \/ Summarize
    \/ DiagnoseRepo
    \/ PrintReport
    \/ CollectFiles
    \/ WriteArtifact
    \/ Rerun

Spec == Init /\ [][Next]_vars

\* ---------------------------------------------------------------- claims

Range(s) == {s[i] : i \in DOMAIN s}

\* p lies below rt and a walk from rt gets to it: every directory from rt down
\* to p's parent can be listed, and none of them below rt has a pruned name
Reachable(f, rt, p) ==
    /\ Len(p) > Len(rt)
    /\ IsPrefix(rt, p)
    /\ \A k \in Len(rt)..(Len(p) - 1) :
         IsDir(f, SubSeq(p, 1, k)) /\ f[SubSeq(p, 1, k)].acc # "nolist"
    /\ \A k \in (Len(rt) + 1)..(Len(p) - 1) : p[k] \notin IGNORE_DIRS

ReachableFiles(f, rt) == {p \in DOMAIN f : ~IsDir(f, p) /\ Reachable(f, rt, p)}

\* The directories of the tree under rt, rt included
DirsOf(f, rt) == {d \in DOMAIN f : IsDir(f, d) /\ IsPrefix(rt, d)}

\* d or one of its ancestors within the tree under rt (rt included) has a
\* pruned name
UnderIgnored(rt, d) == \E k \in Len(rt)..Len(d) : k >= 1 /\ d[k] \in IGNORE_DIRS

\* The directories a line of the listing is for
ListedDirs == {tree[i].of : i \in {j \in DOMAIN tree : tree[j].isdir}}
FileLines == {i \in DOMAIN tree : ~tree[i].isdir}

LowerExt(p) == Lower(Suffix(BaseName(p)))

\* C1: collect_files returns exactly the reachable files, each once, whose
\* lower-cased extension is in SOURCE_EXTS and not in BINARY_EXTS (standard
\* mode), or is not in BINARY_EXTS (raw mode); never one with a BINARY_EXTS
\* extension.
C1_CollectExact ==
    pc = "collected" =>
      /\ Range(files) =
           {p \in ReachableFiles(fs, root) :
              /\ LowerExt(p) \notin BINARY_EXTS
              /\ (~args.r => LowerExt(p) \in SOURCE_EXTS)}
      /\ Cardinality(Range(files)) = Len(files)
      /\ \A i \in DOMAIN files : LowerExt(files[i]) \notin BINARY_EXTS

C1_Witness ==
    /\ pc = "collected"
    /\ args.r
    /\ \E p \in ReachableFiles(fs, root) : LowerExt(p) \in BINARY_EXTS
    /\ \E i \in DOMAIN files : LowerExt(files[i]) \notin SOURCE_EXTS

\* C2 as stated: the directories with a line in the listing are the
\* directories of the tree minus every directory with a pruned name and
\* every descendant of one.
C2_AsStated ==
    pc = "tree" =>
      ListedDirs = {d \in DirsOf(fs, root) : ~UnderIgnored(root, d)}

\* C2, amended: the directories with a line in the listing are the
\* directories that can be listed and are reached from the root through
\* directories that can be listed, minus every directory other than the root
\* with a pruned name and every descendant of one; nothing below a pruned
\* directory has a line.
C2_ListedDirs ==
    pc = "tree" =>
      /\ ListedDirs =
           {d \in DirsOf(fs, root) :
              /\ fs[d].acc # "nolist"
              /\ d # root => Reachable(fs, root, d) /\ BaseName(d) \notin IGNORE_DIRS}
      /\ \A i \in DOMAIN tree :
           \A k \in (Len(root) + 1)..(Len(tree[i].of) - 1) :
             tree[i].of[k] \notin IGNORE_DIRS

C2_Witness ==
    /\ pc = "tree"
    /\ root = <<A>>
    /\ IsFile(fs, <<A, BUILD, XPY>>)
    /\ Len(tree) >= 2

\* C3: the counts of analyze_repo add up to its total, which is the number of
\* files reachable after pruning and the number of file lines of build_tree.
RECURSIVE CounterSum(_)
CounterSum(c) == IF c = <<>> THEN 0 ELSE Head(c).n + CounterSum(Tail(c))

C3_CountsAgree ==
    pc = "analyzed" =>
      /\ CounterSum(counter) = total
      /\ total = Cardinality(ReachableFiles(fs, root))
      /\ total = Cardinality(FileLines)

C3_Witness ==
    /\ pc = "analyzed"
    /\ total >= 2
    /\ Len(counter) >= 2
    /\ \E d \in DirsOf(fs, root) : d # root /\ BaseName(d) \in IGNORE_DIRS

\* C4 as stated: a run that completes took the artifact path (wrote the file
\* and printed the confirmation) exactly when -i was on the command line,
\* whatever its value; without -i it printed the report and wrote nothing.
Confirmed == \E j \in DOMAIN stdout : stdout[j].tag = "OK"
Reported == \E j \in DOMAIN stdout : stdout[j].tag = "TREE"

C4_AsStated ==
    pc = "done" =>
      /\ args.i.kind # "absent" => Confirmed /\ ~Reported
      /\ args.i.kind = "absent" => Reported /\ ~Confirmed /\ fs = fs0

\* C5: after the first five writes the artifact holds, for each collected
\* file in order, its marker line and then its text or the read-error
\* marker (the latter exactly when the read fails); a failed read is not a
\* failing step of write_artifact, and a run whose destination does not fail
\* writes every file's section.
Artifact == fs[OutPath(repo, args.r, IdTag(args.i))].data

C5_FileSections ==
    /\ pc = "collected" =>
         FailingStep(fs, repo, args.r, IdTag(args.i), "none") = "none"
    /\ (Truthy(args.i) /\ (pc = "done" \/ err = "write")) =>
         /\ pc = "done" => Len(Artifact) = 5 + 2 * Len(files)
         /\ \A i \in DOMAIN files :
              /\ 5 + 2 * i - 1 <= Len(Artifact) =>
                   Artifact[5 + 2 * i - 1] =
                     [tag |-> "MARK", val |-> RelativeTo(files[i], root)]
              /\ 5 + 2 * i <= Len(Artifact) =>
                   Artifact[5 + 2 * i] =
                     IF fs0[files[i]].acc = "ok"
                     THEN [tag |-> "TEXT", val |-> files[i]]
                     ELSE [tag |-> "READ ERROR", val |-> <<>>]

C5_Witness ==
    /\ pc = "done"
    /\ Len(files) >= 2
    /\ fs0[files[1]].acc = "noread"
    /\ Artifact[7].tag = "READ ERROR"
    /\ Artifact[9].tag = "TEXT"

\* C6 as stated: no traversal error (a directory that cannot be listed, an
\* entry that cannot be examined) aborts the run.
C6_AsStated == err # "PermissionError"

\* C7: the summary never divides by zero: the run does not end in
\* ZeroDivisionError, and a percentage is computed only when total >= 1.
C7_NoDivisionByZero ==
    /\ err # "ZeroDivisionError"
    /\ pc = "analyzed" => ~DividesByZero(counter, total)
    /\ (pc = "summarized" /\ summary.composition # <<>>) => total >= 1

C7_Witness ==
    /\ pc = "summarized"
    /\ total = 0
    /\ \E p \in DOMAIN fs : IsFile(fs, p) /\ IsPrefix(root, p)

\* C8 as stated: when write_artifact fails at any step, the confirmation is
\* not printed and the final path is absent or holds what it held before.
OutUntouched ==
    LET out == OutPath(repo, args.r, IdTag(args.i))
    IN  /\ Exists(fs, out) <=> Exists(fs0, out)
        /\ Exists(fs, out) => fs[out] = fs0[out]

C9_AsStated ==
    (run = 2 /\ pc = "analyzed") => tree = prevTree /\ counter = prevCounter

\* C9, amended: the second of two runs builds the same tree listing and the
\* same counts as the first in terminal mode, and in artifact mode when the
\* destination directory is neither the scan root nor below it.
C9_Idempotent ==
    (run = 2 /\ pc = "analyzed"
       /\ (Truthy(args.i) => ~IsPrefix(root, OutDir(repo))))
      => tree = prevTree /\ counter = prevCounter

C9_Witness ==
    /\ run = 2
    /\ pc = "analyzed"
    /\ Truthy(args.i)
    /\ ~IsPrefix(root, OutDir(repo))
    /\ Exists(fs, OutPath(repo, args.r, IdTag(args.i)))
    /\ Len(tree) >= 2

\* C10 as stated: the line of a directory at depth d below the root is
\* indented by 2*d spaces, the line of a file directly inside it by 2*(d+1).
C10_AsStated ==
    pc = "tree" =>
      \A i \in DOMAIN tree :
        tree[i].spaces = 2 * (Len(tree[i].of) - Len(root))
====
